---- MODULE Spec2Model ----
(***************************************************************************)
(* The payment demo service: the telemetry bootstrap (Setup,               *)
(* ProvidersFromConfig and the accessors), main's start-up sequence, and   *)
(* the /api/payment handler over the in-memory payments slice, in the      *)
(* three revisions of the service the repository holds:                    *)
(*   "base"     src/main.go            (traces only, no currency field)    *)
(*   "otelhttp" src/unnamed/part_001   (otelhttp + business metrics)       *)
(*   "manual"   src/unnamed/part_002   (hand-written HTTP metrics)         *)
(***************************************************************************)
EXTENDS Integers, Sequences, FiniteSets, TLC

\* ---------------------------------------------------------------- bounds
\* Requests handled in one run of the sequential specification.
MaxRequests == 3
\* Seconds the wall clock may advance in one run.
MaxTicks == 1
\* Requests in flight together in the concurrent specification.
NumConc == 2

\* ------------------------------------------------------ program constants
StatusOK == 200
StatusCreated == 201
StatusBadRequest == 400
StatusMethodNotAllowed == 405

Revisions == {"base", "otelhttp", "manual"}
HasCurrency(rev) == rev # "base"
HasBusinessMetrics(rev) == rev # "base"
HasHTTPMetrics(rev) == rev = "manual"

\* ------------------------------------------------------------------ time
\* The wall clock is Unix seconds; the process's local zone is an offset in
\* seconds east of UTC.
StartTimes == {1751587199}
TZOffsets == {0, 19800}

Digits == <<"0", "1", "2", "3", "4", "5", "6", "7", "8", "9">>
Digit(n) == Digits[n + 1]
Pad2(n) == <<Digit((n \div 10) % 10), Digit(n % 10)>>
Pad4(n) == Pad2(n \div 100) \o Pad2(n % 100)

\* The civil date of a day number counted from 1970-01-01.
CivilFromDays(days) ==
    LET z == days + 719468
        era == z \div 146097
        doe == z - era * 146097
        yoe == (doe - doe \div 1460 + doe \div 36524 - doe \div 146096) \div 365
        doy == doe - (365 * yoe + yoe \div 4 - yoe \div 100)
        mp == (5 * doy + 2) \div 153
        d == doy - (153 * mp + 2) \div 5 + 1
        m == IF mp < 10 THEN mp + 3 ELSE mp - 9
        y == yoe + era * 400 + (IF m <= 2 THEN 1 ELSE 0)
    IN [year |-> y, month |-> m, day |-> d]

\* "Z07:00": Z for UTC, a signed hh:mm offset otherwise.
FormatZone(off) ==
    IF off = 0 THEN <<"Z">>
    ELSE LET a == IF off < 0 THEN 0 - off ELSE off
         IN <<IF off < 0 THEN "-" ELSE "+">> \o Pad2(a \div 3600)
            \o <<":">> \o Pad2((a % 3600) \div 60)

\* time.Time.Format(time.RFC3339) of the instant t in the zone off, as the
\* sequence of the characters of "2006-01-02T15:04:05Z07:00".
FormatRFC3339(t, off) ==
    LET loc == t + off
        c == CivilFromDays(loc \div 86400)
        s == loc % 86400
    IN Pad4(c.year) \o <<"-">> \o Pad2(c.month) \o <<"-">> \o Pad2(c.day)
       \o <<"T">> \o Pad2(s \div 3600) \o <<":">> \o Pad2((s % 3600) \div 60)
       \o <<":">> \o Pad2(s % 60) \o FormatZone(off)

\* PaymentID with the clock read in minutes instead of seconds.
PaymentID_Minutes(unix) == "pay_" \o ToString(unix \div 60)

\* fmt.Sprintf("pay_%d", unix)
PaymentID(unix) == "pay_" \o ToString(unix)

\* ------------------------------------------------------------------ JSON
\* A JSON scalar a request body can give a member, or the member's absence.
Num(n) == [t |-> "number", n |-> n, s |-> ""]
Str(s) == [t |-> "string", n |-> 0, s |-> s]
Null == [t |-> "null", n |-> 0, s |-> ""]
Absent == [t |-> "absent", n |-> 0, s |-> ""]

NoMembers ==
    [id |-> Absent, amount |-> Absent, currency |-> Absent,
     status |-> Absent, date |-> Absent]
\* A request body: no bytes at all, text that is not JSON, or a JSON value.
Body(kind) == [json |-> kind, members |-> NoMembers]
Object(m) == [json |-> "object", members |-> m]

\* The Payment struct of a revision, as its zero value.
ZeroPayment(rev) ==
    IF HasCurrency(rev)
    THEN [ID |-> "", Amount |-> 0, Currency |-> "", Status |-> "", Date |-> <<>>]
    ELSE [ID |-> "", Amount |-> 0, Status |-> "", Date |-> <<>>]

\* A date member's text, as the characters the struct field then holds.
Chars(s) == IF s = "" THEN <<>> ELSE <<s>>

\* encoding/json's decoding of one object member into a string field: a
\* string is stored, null and an absent member leave the field, and any
\* other JSON type is an error.
StringField(v, old) == IF v.t = "string" THEN v.s ELSE old
NumberField(v, old) == IF v.t = "number" THEN v.n ELSE old
StringFieldErr(v) == v.t \notin {"string", "null", "absent"}
NumberFieldErr(v) == v.t \notin {"number", "null", "absent"}

\* Decode with a member of the wrong JSON type skipped instead of reported.
Decode_Lenient(rev, body) ==
    LET zero == ZeroPayment(rev)
        m == body.members
    IN CASE body.json = "null" -> [err |-> FALSE, payment |-> zero]
         [] body.json = "object" ->
              LET p0 == [zero EXCEPT !.ID = StringField(m.id, @),
                                     !.Amount = NumberField(m.amount, @),
                                     !.Status = StringField(m.status, @),
                                     !.Date = Chars(StringField(m.date, ""))]
              IN [err |-> FALSE,
                  payment |-> IF HasCurrency(rev)
                              THEN [p0 EXCEPT !.Currency = StringField(m.currency, @)]
                              ELSE p0]
         [] OTHER -> [err |-> TRUE, payment |-> zero]

\* json.NewDecoder(r.Body).Decode(&payment) on a zero Payment: the error and
\* the struct afterwards.
Decode(rev, body) ==
    LET zero == ZeroPayment(rev)
        m == body.members
    IN CASE body.json \in {"empty", "syntax"} -> [err |-> TRUE, payment |-> zero]
         [] body.json = "null" -> [err |-> FALSE, payment |-> zero]
         [] body.json = "object" ->
              LET p0 == [zero EXCEPT !.ID = StringField(m.id, @),
                                     !.Amount = NumberField(m.amount, @),
                                     !.Status = StringField(m.status, @),
                                     !.Date = Chars(StringField(m.date, ""))]
                  p == IF HasCurrency(rev)
                       THEN [p0 EXCEPT !.Currency = StringField(m.currency, @)]
                       ELSE p0
                  bad == \/ StringFieldErr(m.id)
                         \/ NumberFieldErr(m.amount)
                         \/ StringFieldErr(m.status)
                         \/ StringFieldErr(m.date)
                         \/ HasCurrency(rev) /\ StringFieldErr(m.currency)
              IN [err |-> bad, payment |-> p]
         [] OTHER -> [err |-> TRUE, payment |-> zero]


\* ------------------------------------------------------------- responses
NoObject == [none |-> TRUE]
JSONNull == [json |-> "null", items |-> <<>>, obj |-> NoObject]
JSONArray(items) == [json |-> "array", items |-> items, obj |-> NoObject]
JSONObject(o) == [json |-> "object", items |-> <<>>, obj |-> o]
NoBody == [json |-> "none", items |-> <<>>, obj |-> NoObject]

\* json.Encode of map[string]string{"error": msg}
ErrorPayload(msg) == JSONObject([error |-> msg])

\* json.Encode of a Payment: the struct's fields under their json tags.
EncodePayment(rev, p) ==
    IF HasCurrency(rev)
    THEN [id |-> p.ID, amount |-> p.Amount, currency |-> p.Currency,
          status |-> p.Status, date |-> p.Date]
    ELSE [id |-> p.ID, amount |-> p.Amount, status |-> p.Status, date |-> p.Date]

\* The status a response goes out with: the one given to WriteHeader, or 200
\* when the first Write comes with no WriteHeader before it.
ResponseStatus(written) == IF written = 0 THEN StatusOK ELSE written

\* ---------------------------------------------------------------- slices
\* var payments []Payment: a slice header over a backing array of the heap;
\* the nil slice has no array.
NilSlice == [ptr |-> 0, len |-> 0, cap |-> 0]

\* The capacity append grows a full slice of capacity c to.
GrowCap(c) == IF c = 0 THEN 1 ELSE 2 * c

\* The elements a slice header h shows of the heap hp.
Elems(h, hp) == [i \in 1..h.len |-> hp[h.ptr][i]]

\* AppendTarget of an append that reads and writes payments in one step.
AppendTarget_Current(read, current) == current

\* The header that append(payments, p) extends: the one the statement read.
AppendTarget(read, current) == read

\* AppendSlice that, when it grows the array, does not copy the elements.
AppendSlice_NoCopy(rev, h, hp, p) ==
    IF h.len < h.cap
    THEN [slice |-> [h EXCEPT !.len = h.len + 1],
          heap |-> [hp EXCEPT ![h.ptr][h.len + 1] = p]]
    ELSE LET n == GrowCap(h.cap)
             arr == [i \in 1..n |-> IF i = h.len + 1 THEN p ELSE ZeroPayment(rev)]
         IN [slice |-> [ptr |-> Len(hp) + 1, len |-> h.len + 1, cap |-> n],
             heap |-> Append(hp, arr)]

\* append(h, p): the new header and the heap after it. With spare capacity
\* the element is written in place; otherwise a larger array is allocated
\* and the elements are copied to it.
AppendSlice(rev, h, hp, p) ==
    IF h.len < h.cap
    THEN [slice |-> [h EXCEPT !.len = h.len + 1],
          heap |-> [hp EXCEPT ![h.ptr][h.len + 1] = p]]
    ELSE LET n == GrowCap(h.cap)
             arr == [i \in 1..n |->
                        IF i <= h.len THEN hp[h.ptr][i]
                        ELSE IF i = h.len + 1 THEN p ELSE ZeroPayment(rev)]
         IN [slice |-> [ptr |-> Len(hp) + 1, len |-> h.len + 1, cap |-> n],
             heap |-> Append(hp, arr)]

\* json.Encode of a []Payment: null for the nil slice, an array otherwise.
EncodePayments(rev, h, hp) ==
    IF h.ptr = 0 THEN JSONNull
    ELSE JSONArray([i \in 1..h.len |-> EncodePayment(rev, hp[h.ptr][i])])

\* ------------------------------------------------------------- telemetry
ConfigStates == {"missing", "unreadable", "badyaml", "sdkfail", "valid"}

NoProviders ==
    [null |-> TRUE, TracerProvider |-> "nil", MeterProvider |-> "nil",
     LoggerProvider |-> "nil", Logger |-> "nil", Closer |-> "nil"]

\* ProvidersFromConfig that takes every read error for a missing file.
ProvidersFromConfig_AnyReadError(cfg) ==
    CASE cfg \in {"missing", "unreadable"} ->
           [err |-> FALSE,
            providers |-> [null |-> FALSE, TracerProvider |-> "nil",
                           MeterProvider |-> "nil", LoggerProvider |-> "nil",
                           Logger |-> "zap.production", Closer |-> "noop"]]
      [] cfg = "valid" ->
           [err |-> FALSE,
            providers |-> [null |-> FALSE, TracerProvider |-> "sdk",
                           MeterProvider |-> "sdk", LoggerProvider |-> "sdk",
                           Logger |-> "zap.tee", Closer |-> "sdk.Shutdown"]]
      [] OTHER -> [err |-> TRUE, providers |-> NoProviders]

\* ProvidersFromConfig: the bundle for the state the config file is in.
ProvidersFromConfig(cfg) ==
    CASE cfg = "missing" ->
           [err |-> FALSE,
            providers |-> [null |-> FALSE, TracerProvider |-> "nil",
                           MeterProvider |-> "nil", LoggerProvider |-> "nil",
                           Logger |-> "zap.production", Closer |-> "noop"]]
      [] cfg = "valid" ->
           [err |-> FALSE,
            providers |-> [null |-> FALSE, TracerProvider |-> "sdk",
                           MeterProvider |-> "sdk", LoggerProvider |-> "sdk",
                           Logger |-> "zap.tee", Closer |-> "sdk.Shutdown"]]
      [] OTHER -> [err |-> TRUE, providers |-> NoProviders]

\* The process-wide otel globals before any Set call.
DefaultGlobals ==
    [tracer |-> "default", meter |-> "default", logger |-> "default",
     propagator |-> "default"]

\* Setup: what it returns and what it leaves in the globals and gProviders.
Setup(cfg, globals, gp) ==
    LET r == ProvidersFromConfig(cfg)
    IN IF r.err
       THEN [err |-> TRUE, closer |-> "nil", globals |-> globals, gProviders |-> gp]
       ELSE [err |-> FALSE, closer |-> r.providers.Closer,
             globals |-> [tracer |-> r.providers.TracerProvider,
                          meter |-> r.providers.MeterProvider,
                          logger |-> r.providers.LoggerProvider,
                          propagator |-> "tracecontext,baggage"],
             gProviders |-> r.providers]

\* Logger(), Meter(), Tracer(): what the call yields; "panic" is the nil
\* dereference of a method call on a nil provider interface.
Logger(gp) == IF gp.null THEN "zap.development" ELSE gp.Logger
Meter(gp, globals) ==
    IF gp.null THEN globals.meter \o ".Meter"
    ELSE IF gp.MeterProvider = "nil" THEN "panic"
    ELSE gp.MeterProvider \o ".Meter"
Tracer(gp, globals) ==
    IF gp.null THEN globals.tracer \o ".Tracer"
    ELSE IF gp.TracerProvider = "nil" THEN "panic"
    ELSE gp.TracerProvider \o ".Tracer"

\* ----------------------------------------------------------------- state
NoMetrics ==
    [null |-> TRUE, requests |-> 0, errors |-> 0, amounts |-> 0,
     byStatus |-> 0, byCurrency |-> 0]

NoResponse == [method |-> "", reqBody |-> Body("empty"), status |-> 0, body |-> NoBody]

IdleRequest(rev) ==
    [pc |-> "idle", method |-> "", body |-> Body("empty"),
     payment |-> ZeroPayment(rev), snap |-> NilSlice, idAt |-> 0]

VARIABLES
    cfgFile,      \* the state of local/otel.yaml on disk
    revision,     \* which revision of the service runs
    tz,           \* the process's zone offset
    now, ticks,   \* the wall clock, and the seconds it has advanced
    pc,           \* main's position
    gProviders,   \* telemetry: var gProviders *Providers
    otelGlobal,   \* the otel global providers and propagator
    closer,       \* main's closer
    deferred,     \* whether main's deferred shutdown call is registered
    closerCalls,  \* how many times closer has been called
    closerErr,    \* whether the last closer call returned an error
    registered,   \* whether the handler is registered on /api/payment
    metrics,      \* var metrics *Metrics, with what each instrument holds
    payments,     \* var payments []Payment
    heap,         \* the backing arrays allocated so far
    created,      \* the records the 201 responses returned, in order
    last,         \* the last response written
    handled,      \* how many requests have been answered
    reqs,         \* the requests in flight (concurrent specification)
    ub            \* a torn read or write of racing accesses has happened

vars == <<cfgFile, revision, tz, now, ticks, pc, gProviders, otelGlobal, closer,
          deferred, closerCalls, closerErr, registered, metrics, payments, heap,
          created, last, handled, reqs, ub>>

mainVars == <<pc, gProviders, otelGlobal, closer, deferred, closerCalls,
              closerErr, registered>>
envVars == <<cfgFile, revision, tz>>
storeVars == <<payments, heap>>
histVars == <<created, last, handled>>
concVars == <<reqs, ub>>

Init ==
    /\ cfgFile \in ConfigStates
    /\ revision \in Revisions
    /\ tz \in TZOffsets
    /\ now \in StartTimes
    /\ ticks = 0
    /\ pc = "start"
    /\ gProviders = NoProviders
    /\ otelGlobal = DefaultGlobals
    /\ closer = "nil"
    /\ deferred = FALSE
    /\ closerCalls = 0
    /\ closerErr = FALSE
    /\ registered = FALSE
    /\ metrics = NoMetrics
    /\ payments = NilSlice
    /\ heap = <<>>
    /\ created = <<>>
    /\ last = NoResponse
    /\ handled = 0
    /\ reqs = [r \in 1..NumConc |-> IdleRequest(revision)]
    /\ ub = FALSE


\* ------------------------------------------------------------------ main
\* What a call of closer can return: whether it reports an error.
CloserResults(c) == IF c = "sdk.Shutdown" THEN {FALSE, TRUE} ELSE {FALSE}

\* A panic in main: the deferred functions run, then the process dies.
Panic ==
    /\ pc' = "crashed"
    /\ IF deferred
       THEN /\ closerCalls' = closerCalls + 1
            /\ closerErr' \in CloserResults(closer)
       ELSE UNCHANGED <<closerCalls, closerErr>>

\* closer, err := telemetry.Setup(...); if err != nil { panic(err) }; defer ...
MainSetup ==
    /\ pc = "start"
    /\ LET r == Setup(cfgFile, otelGlobal, gProviders)
       IN /\ otelGlobal' = r.globals
          /\ gProviders' = r.gProviders
          /\ closer' = r.closer
          /\ IF r.err
             THEN Panic /\ UNCHANGED deferred
             ELSE /\ deferred' = TRUE
                  /\ pc' = IF HasBusinessMetrics(revision)
                           THEN "initMetrics" ELSE "startSpan"
                  /\ UNCHANGED <<closerCalls, closerErr>>
    /\ UNCHANGED <<envVars, now, ticks, registered, metrics, storeVars,
                   histVars, concVars>>

\* if err := initMetrics(); err != nil { panic(err) }
MainInitMetrics ==
    /\ pc = "initMetrics"
    /\ IF Meter(gProviders, otelGlobal) = "panic"
       THEN Panic /\ UNCHANGED metrics
       ELSE /\ metrics' = [NoMetrics EXCEPT !.null = FALSE]
            /\ pc' = "startSpan"
            /\ UNCHANGED <<closerCalls, closerErr>>
    /\ UNCHANGED <<envVars, now, ticks, gProviders, otelGlobal, closer,
                   deferred, registered, storeVars, histVars, concVars>>

\* ctx, span := telemetry.Tracer().Start(ctx, "run"); logger := Logger()
MainStartSpan ==
    /\ pc = "startSpan"
    /\ IF Tracer(gProviders, otelGlobal) = "panic"
       THEN Panic
       ELSE pc' = "register" /\ UNCHANGED <<closerCalls, closerErr>>
    /\ UNCHANGED <<envVars, now, ticks, gProviders, otelGlobal, closer,
                   deferred, registered, metrics, storeVars, histVars, concVars>>

\* http.HandleFunc("/api/payment", paymentHandler); span.End()
MainRegister ==
    /\ pc = "register"
    /\ registered' = TRUE
    /\ pc' = "listen"
    /\ UNCHANGED <<envVars, now, ticks, gProviders, otelGlobal, closer,
                   deferred, closerCalls, closerErr, metrics, storeVars,
                   histVars, concVars>>

\* http.ListenAndServe binds the port and serves.
ListenAndServe ==
    /\ pc = "listen"
    /\ pc' = "serving"
    /\ UNCHANGED <<envVars, now, ticks, gProviders, otelGlobal, closer,
                   deferred, closerCalls, closerErr, registered, metrics,
                   storeVars, histVars, concVars>>

\* http.ListenAndServe returns its error, at once or after serving, and
\* logger.Fatal logs it and ends the process with os.Exit(1): no deferred
\* function runs.
ListenAndServeFails ==
    /\ pc \in {"listen", "serving"}
    /\ pc' = "exited"
    /\ UNCHANGED <<envVars, now, ticks, gProviders, otelGlobal, closer,
                   deferred, closerCalls, closerErr, registered, metrics,
                   storeVars, histVars, concVars>>

\* A second passes on the wall clock.
Tick ==
    /\ pc = "serving"
    /\ ~ub
    /\ ticks < MaxTicks
    /\ now' = now + 1
    /\ ticks' = ticks + 1
    /\ UNCHANGED <<envVars, mainVars, metrics, storeVars, histVars, concVars>>

Main ==
    \/ MainSetup
    \/ MainInitMetrics
    \/ MainStartSpan
    \/ MainRegister
    \/ ListenAndServe
    \/ ListenAndServeFails

\* -------------------------------------------------------------- handlers
Methods == {"GET", "POST", "PUT", "HEAD"}

Bodies ==
    {Body("empty"), Body("syntax"), Body("null"), Body("array"),
     Object([NoMembers EXCEPT !.amount = Num(250), !.currency = Str("EUR")]),
     Object([NoMembers EXCEPT !.amount = Num(100), !.currency = Str("")]),
     Object([NoMembers EXCEPT !.amount = Num(5), !.id = Str("evil"),
                              !.status = Str("paid"), !.date = Str("yesterday")]),
     Object([NoMembers EXCEPT !.amount = Str("abc")])}

\* if payment.Currency == "" { payment.Currency = "USD" }
DefaultCurrency(rev, p) ==
    IF HasCurrency(rev) /\ p.Currency = "" THEN [p EXCEPT !.Currency = "USD"] ELSE p

\* Stamp without the assignment of the status.
Stamp_ClientStatus(rev, p, tID, tDate, off) ==
    [DefaultCurrency(rev, p) EXCEPT !.ID = PaymentID(tID),
                                    !.Date = FormatRFC3339(tDate, off)]

\* The server-side fields of a decoded payment: the id from the clock read
\* at tID, the date from the clock read at tDate.
Stamp(rev, p, tID, tDate, off) ==
    [DefaultCurrency(rev, p) EXCEPT !.ID = PaymentID(tID),
                                    !.Date = FormatRFC3339(tDate, off),
                                    !.Status = "pending"]

\* The three business instruments' recordings for one stored payment.
RecordPayment(rev, m) ==
    IF HasBusinessMetrics(rev)
    THEN [m EXCEPT !.amounts = @ + 1, !.byStatus = @ + 1, !.byCurrency = @ + 1]
    ELSE m

\* paymentHandler's entry and its deferred function in the manual revision:
\* the request counter, and the error counter for a status of 400 and above.
CountRequest(rev, m) ==
    IF HasHTTPMetrics(rev) THEN [m EXCEPT !.requests = @ + 1] ELSE m
CountError(rev, m, status) ==
    IF HasHTTPMetrics(rev) /\ status >= 400 THEN [m EXCEPT !.errors = @ + 1] ELSE m

\* handleGetPayments: the base revision writes no header before the body.
handleGetPayments(rev, pays, hp) ==
    [status |-> ResponseStatus(IF rev = "base" THEN 0 ELSE StatusOK),
     body |-> EncodePayments(rev, pays, hp),
     payments |-> pays, heap |-> hp, stored |-> FALSE]

\* handleCreatePayment, run without interruption.
handleCreatePayment(rev, body, pays, hp, tID, tDate, off) ==
    LET d == Decode(rev, body)
    IN IF d.err
       THEN [status |-> StatusBadRequest, body |-> ErrorPayload("Invalid JSON"),
             payments |-> pays, heap |-> hp, stored |-> FALSE]
       ELSE LET p == Stamp(rev, d.payment, tID, tDate, off)
                a == AppendSlice(rev, AppendTarget(pays, pays), hp, p)
            IN [status |-> StatusCreated,
                body |-> JSONObject(EncodePayment(rev, p)),
                payments |-> a.slice, heap |-> a.heap, stored |-> TRUE]

\* paymentHandler with PUT falling into the POST case.
paymentHandler_PutCreates(rev, method, body, pays, hp, tID, tDate, off) ==
    CASE method = "GET" -> handleGetPayments(rev, pays, hp)
      [] method \in {"POST", "PUT"} ->
           handleCreatePayment(rev, body, pays, hp, tID, tDate, off)
      [] OTHER -> [status |-> StatusMethodNotAllowed,
                   body |-> ErrorPayload("Method not allowed"),
                   payments |-> pays, heap |-> hp, stored |-> FALSE]

\* paymentHandler's switch on r.Method.
paymentHandler(rev, method, body, pays, hp, tID, tDate, off) ==
    CASE method = "GET" -> handleGetPayments(rev, pays, hp)
      [] method = "POST" -> handleCreatePayment(rev, body, pays, hp, tID, tDate, off)
      [] OTHER -> [status |-> StatusMethodNotAllowed,
                   body |-> ErrorPayload("Method not allowed"),
                   payments |-> pays, heap |-> hp, stored |-> FALSE]

\* One request handled from start to end with no other request in flight;
\* dt seconds pass between the handler's two readings of the clock.
Handle(method, body, dt) ==
    /\ pc = "serving"
    /\ handled < MaxRequests
    /\ ticks + dt <= MaxTicks
    /\ method = "POST" \/ (body = Body("empty") /\ dt = 0)
    /\ LET r == paymentHandler(revision, method, body, payments, heap,
                               now, now + dt, tz)
           m1 == CountRequest(revision, metrics)
           m2 == IF r.stored THEN RecordPayment(revision, m1) ELSE m1
       IN /\ payments' = r.payments
          /\ heap' = r.heap
          /\ metrics' = CountError(revision, m2, r.status)
          /\ last' = [method |-> method, reqBody |-> body,
                      status |-> r.status, body |-> r.body]
          /\ created' = IF r.stored
                        THEN Append(created, [record |-> r.body.obj, at |-> now])
                        ELSE created
    /\ handled' = handled + 1
    /\ now' = now + dt
    /\ ticks' = ticks + dt
    /\ UNCHANGED <<envVars, mainVars, concVars>>

Serve == \E method \in Methods, body \in Bodies, dt \in {0, 1} : Handle(method, body, dt)

Next == Main \/ Tick \/ Serve

Spec == Init /\ [][Next]_vars


\* ------------------------------------------------- concurrent handlers
\* net/http runs each request's handler on its own goroutine. A handler is
\* cut where it reads or writes what the goroutines share: the payments
\* header, the backing arrays, the instruments and the clock.
ConcMethods == {"GET", "POST", "PUT"}
ConcBodies ==
    {Body("syntax"),
     Object([NoMembers EXCEPT !.amount = Num(100)]),
     Object([NoMembers EXCEPT !.amount = Num(250), !.currency = Str("EUR")])}

\* A response goes out.
Respond(method, reqBody, status, body, idAt) ==
    /\ last' = [method |-> method, reqBody |-> reqBody, status |-> status,
                body |-> body]
    /\ created' = IF status = StatusCreated
                  THEN Append(created, [record |-> body.obj, at |-> idAt])
                  ELSE created
    /\ handled' = handled + 1

\* paymentHandler up to the first shared access of the method's branch: a
\* POST decodes its body and stamps the payment, a GET is about to read the
\* list, any other method is answered at once.
Begin(r, method, body) ==
    /\ pc = "serving" /\ ~ub
    /\ reqs[r].pc = "idle"
    /\ \A q \in 1..(r - 1) : reqs[q].pc # "idle"
    /\ method = "POST" \/ body = Body("syntax")
    /\ LET d == Decode(revision, body)
           m1 == CountRequest(revision, metrics)
           started == [reqs[r] EXCEPT !.method = method, !.body = body]
       IN CASE method = "GET" ->
                 /\ reqs' = [reqs EXCEPT ![r] = [started EXCEPT !.pc = "get_read"]]
                 /\ metrics' = m1
                 /\ UNCHANGED histVars
            [] method = "POST" /\ ~d.err ->
                 /\ reqs' = [reqs EXCEPT ![r] =
                               [started EXCEPT
                                  !.pc = "read", !.idAt = now,
                                  !.payment = Stamp(revision, d.payment, now, now, tz)]]
                 /\ metrics' = m1
                 /\ UNCHANGED histVars
            [] method = "POST" /\ d.err ->
                 /\ reqs' = [reqs EXCEPT ![r] = [started EXCEPT !.pc = "done"]]
                 /\ metrics' = CountError(revision, m1, StatusBadRequest)
                 /\ Respond(method, body, StatusBadRequest,
                            ErrorPayload("Invalid JSON"), 0)
            [] OTHER ->
                 /\ reqs' = [reqs EXCEPT ![r] = [started EXCEPT !.pc = "done"]]
                 /\ metrics' = CountError(revision, m1, StatusMethodNotAllowed)
                 /\ Respond(method, body, StatusMethodNotAllowed,
                            ErrorPayload("Method not allowed"), 0)
    /\ UNCHANGED <<envVars, now, ticks, mainVars, storeVars, ub>>

\* handleGetPayments evaluates the argument of Encode(payments): it reads
\* the slice header.
GetRead(r) ==
    /\ pc = "serving" /\ ~ub
    /\ reqs[r].pc = "get_read"
    /\ reqs' = [reqs EXCEPT ![r].pc = "get_encode", ![r].snap = payments]
    /\ UNCHANGED <<envVars, now, ticks, mainVars, metrics, storeVars, histVars, ub>>

\* Encode reads the elements under the header it was given and the response
\* goes out.
GetEncode(r) ==
    /\ pc = "serving" /\ ~ub
    /\ reqs[r].pc = "get_encode"
    /\ LET res == handleGetPayments(revision, reqs[r].snap, heap)
       IN Respond("GET", reqs[r].body, res.status, res.body, 0)
    /\ reqs' = [reqs EXCEPT ![r].pc = "done"]
    /\ UNCHANGED <<envVars, now, ticks, mainVars, metrics, storeVars, ub>>

\* payments = append(payments, payment), first half: the read of payments.
AppendRead(r) ==
    /\ pc = "serving" /\ ~ub
    /\ reqs[r].pc = "read"
    /\ reqs' = [reqs EXCEPT ![r].pc = "append", ![r].snap = payments]
    /\ UNCHANGED <<envVars, now, ticks, mainVars, metrics, storeVars, histVars, ub>>

\* payments = append(payments, payment), second half: the element is written
\* under the header read, and the new header is stored in payments.
AppendWrite(r) ==
    /\ pc = "serving" /\ ~ub
    /\ reqs[r].pc = "append"
    /\ LET a == AppendSlice(revision, AppendTarget(reqs[r].snap, payments), heap,
                            reqs[r].payment)
       IN /\ payments' = a.slice
          /\ heap' = a.heap
    /\ reqs' = [reqs EXCEPT ![r].pc = "record"]
    /\ UNCHANGED <<envVars, now, ticks, mainVars, metrics, histVars, ub>>

\* The business instruments record the payment, the 201 response goes out,
\* and paymentHandler's deferred function runs.
RecordAndRespond(r) ==
    /\ pc = "serving" /\ ~ub
    /\ reqs[r].pc = "record"
    /\ metrics' = CountError(revision, RecordPayment(revision, metrics), StatusCreated)
    /\ Respond("POST", reqs[r].body, StatusCreated,
               JSONObject(EncodePayment(revision, reqs[r].payment)), reqs[r].idAt)
    /\ reqs' = [reqs EXCEPT ![r].pc = "done"]
    /\ UNCHANGED <<envVars, now, ticks, mainVars, storeVars, ub>>

\* Whether the access request r is about to make overlaps a conflicting
\* access of another request with nothing ordering the two: the header read
\* against a header write, two header writes, or an element written in place
\* under a header another request is encoding.
Races(r) ==
    \/ /\ reqs[r].pc \in {"read", "get_read"}
       /\ \E q \in 1..NumConc : q # r /\ reqs[q].pc = "append"
    \/ /\ reqs[r].pc = "append"
       /\ \E q \in 1..NumConc : q # r /\ reqs[q].pc = "append"
    \/ /\ reqs[r].pc = "append"
       /\ reqs[r].snap.len < reqs[r].snap.cap
       /\ \E q \in 1..NumConc :
             /\ q # r
             /\ reqs[q].pc = "get_encode"
             /\ reqs[q].snap.ptr = reqs[r].snap.ptr
             /\ reqs[q].snap.len > reqs[r].snap.len

\* A racing access of a multi-word value (the three-word header, a Payment)
\* may see or leave a mix of two values: from there the program's behaviour
\* is undefined, and the model stops.
TornAccess(r) ==
    /\ pc = "serving" /\ ~ub
    /\ Races(r)
    /\ ub' = TRUE
    /\ UNCHANGED <<envVars, now, ticks, mainVars, metrics, storeVars, histVars, reqs>>

ServeConcurrently ==
    \/ \E r \in 1..NumConc, method \in ConcMethods, body \in ConcBodies :
          Begin(r, method, body)
    \/ \E r \in 1..NumConc : GetRead(r)
    \/ \E r \in 1..NumConc : GetEncode(r)
    \/ \E r \in 1..NumConc : AppendRead(r)
    \/ \E r \in 1..NumConc : AppendWrite(r)
    \/ \E r \in 1..NumConc : RecordAndRespond(r)
    \/ \E r \in 1..NumConc : TornAccess(r)

ConcNext == Main \/ Tick \/ ServeConcurrently

ConcSpec == Init /\ [][ConcNext]_vars

\* ================================================================ claims
\* What the claims read of the state.
Stored == Elems(payments, heap)
CreatedRecords == [i \in 1..Len(created) |-> created[i].record]
Answered == handled' = handled + 1

DigitChars == {Digits[i] : i \in 1..10}
DigitVal(c) == CHOOSE i \in 0..9 : Digits[i + 1] = c
TwoDigits(d, i) == 10 * DigitVal(d[i]) + DigitVal(d[i + 1])

\* Whether the characters d spell an RFC 3339 date-time.
IsRFC3339(d) ==
    /\ Len(d) \in {20, 25}
    /\ \A i \in {1, 2, 3, 4, 6, 7, 9, 10, 12, 13, 15, 16, 18, 19} : d[i] \in DigitChars
    /\ d[5] = "-" /\ d[8] = "-" /\ d[11] = "T" /\ d[14] = ":" /\ d[17] = ":"
    /\ TwoDigits(d, 6) \in 1..12
    /\ TwoDigits(d, 9) \in 1..31
    /\ TwoDigits(d, 12) \in 0..23
    /\ TwoDigits(d, 15) \in 0..59
    /\ TwoDigits(d, 18) \in 0..59
    /\ IF Len(d) = 20 THEN d[20] = "Z"
       ELSE /\ d[20] \in {"+", "-"}
            /\ \A i \in {21, 22, 24, 25} : d[i] \in DigitChars
            /\ d[23] = ":"
            /\ TwoDigits(d, 21) \in 0..23
            /\ TwoDigits(d, 24) \in 0..59

\* The list, the 201 responses and the last GET agree.
C1_ListState ==
    /\ Len(Stored) = Len(created)
    /\ \A i \in 1..Len(created) : EncodePayment(revision, Stored[i]) = created[i].record
    /\ last.method = "GET" =>
         /\ last.status = StatusOK
         /\ last.body.items = CreatedRecords
\* A step keeps every stored record and adds one exactly with a 201 response.
C1_ListStep ==
    /\ Len(Stored') >= Len(Stored)
    /\ \A i \in 1..Len(Stored) : Stored'[i] = Stored[i]
    /\ Len(Stored') > Len(Stored) =>
         /\ Answered
         /\ last'.method = "POST" /\ last'.status = StatusCreated
         /\ Len(Stored') = Len(Stored) + 1
    /\ (Answered /\ last'.status = StatusCreated) => Len(Stored') = Len(Stored) + 1
\* C1: after requests handled one at a time, a GET answers 200 with exactly
\* the records the preceding 201 responses returned, in that order; the list
\* grows by one record per 201 response and by nothing else, and a stored
\* record is never changed or removed.
C1_GetReturnsCreatedInOrder == [](C1_ListState) /\ [][C1_ListStep]_vars
C1_Witness ==
    /\ last.method = "GET"
    /\ handled = 3
    /\ Len(created) = 2
    /\ created[1].record # created[2].record
    /\ last.body.items = <<created[1].record, created[2].record>>

\* C2: a GET handled before any successful POST answers with the empty JSON
\* array [].
C2_FirstGetIsEmptyArray ==
    (last.method = "GET" /\ Len(created) = 0) =>
        (last.body.json = "array" /\ last.body.items = <<>>)

\* Whether a body was decoded into a Payment with no error, said of the body
\* itself: null, or an object whose known members have the right JSON types.
Decodable(rev, b) ==
    \/ b.json = "null"
    \/ /\ b.json = "object"
       /\ b.members.amount.t \in {"number", "null", "absent"}
       /\ \A v \in {b.members.id, b.members.status, b.members.date} :
              v.t \in {"string", "null", "absent"}
       /\ HasCurrency(rev) => b.members.currency.t \in {"string", "null", "absent"}

\* What C3 says of every answered POST with a decodable body, but for the
\* currency.
C3_ServerFields ==
    /\ last.status = StatusCreated
    /\ last.body.json = "object"
    /\ Len(created) >= 1
    /\ last.body.obj = created[Len(created)].record
    /\ last.body.obj = EncodePayment(revision, Stored[Len(Stored)])
    /\ last.body.obj.id # ""
    /\ last.body.obj.id = "pay_" \o ToString(created[Len(created)].at)
    /\ last.body.obj.status = "pending"
    /\ IsRFC3339(last.body.obj.date)
    /\ last.body.obj.amount =
         (IF last.reqBody.members.amount.t = "number"
          THEN last.reqBody.members.amount.n ELSE 0)

\* C3 as stated: the currency is "USD" when the body omitted it and the
\* supplied currency otherwise.
C3_Original ==
    (last.method = "POST" /\ Decodable(revision, last.reqBody)) =>
        /\ C3_ServerFields
        /\ HasCurrency(revision) =>
             last.body.obj.currency =
                (IF last.reqBody.members.currency.t = "absent"
                 THEN "USD" ELSE last.reqBody.members.currency.s)

\* C3 as amended: every POST whose body decodes into a Payment with no error
\* answers 201 with the stored record: id non-empty and the server's,
\* status "pending", date an RFC 3339 timestamp, amount the client's; in the
\* revisions whose Payment has a currency, the currency is "USD" when the
\* body omitted it or gave null or the empty string, and the supplied
\* currency otherwise.
C3_Amended ==
    (last.method = "POST" /\ Decodable(revision, last.reqBody)) =>
        /\ C3_ServerFields
        /\ HasCurrency(revision) =>
             last.body.obj.currency =
                (IF \/ last.reqBody.members.currency.t \in {"absent", "null"}
                    \/ last.reqBody.members.currency.s = ""
                 THEN "USD" ELSE last.reqBody.members.currency.s)
C3_Witness ==
    /\ last.method = "POST"
    /\ last.status = StatusCreated
    /\ HasCurrency(revision)
    /\ last.reqBody.members.currency = Str("")
    /\ last.body.obj.currency = "USD"
    /\ \E i \in 1..Len(created) :
          /\ created[i].record.currency = "EUR"
          /\ created[i].record.amount = 250

\* The bodies C4 is about: no bytes, text that is not JSON, a JSON value
\* that is no object and not null, or a member of the wrong JSON type.
Undecodable(rev, b) == ~Decodable(rev, b)

\* A step that answers a POST with an undecodable body.
C4_Step ==
    (Answered /\ last'.method = "POST" /\ Undecodable(revision, last'.reqBody)) =>
        /\ last'.status = StatusBadRequest
        /\ last'.body = ErrorPayload("Invalid JSON")
        /\ payments' = payments
        /\ heap' = heap
        /\ created' = created
        /\ metrics'.amounts = metrics.amounts
        /\ metrics'.byStatus = metrics.byStatus
        /\ metrics'.byCurrency = metrics.byCurrency
\* C4: a POST whose body cannot be decoded into a payment answers 400 with
\* {"error":"Invalid JSON"}, and leaves the list as it was and the payment
\* instruments unrecorded.
C4_UndecodableBodyRejected == [][C4_Step]_vars
C4_Witness ==
    /\ last.method = "POST"
    /\ last.status = StatusBadRequest
    /\ last.reqBody.members.amount.t = "string"
    /\ Len(Stored) = 2
    /\ HasBusinessMetrics(revision)
    /\ metrics.amounts = 2

\* A step that answers a request of another method.
C5_Step ==
    (Answered /\ last'.method \notin {"GET", "POST"}) =>
        /\ last'.status = StatusMethodNotAllowed
        /\ last'.body = ErrorPayload("Method not allowed")
        /\ payments' = payments
        /\ heap' = heap
        /\ created' = created
C6_MissingConfigNotFatal ==
    (cfgFile = "missing" /\ pc # "start") =>
        /\ closer = "noop"
        /\ Logger(gProviders) = "zap.production"
        /\ pc # "crashed"

\* C7: a config that cannot be read (other than not existing), parsed or
\* built into an SDK is fatal: Setup returns an error and no shutdown
\* function, leaves gProviders and the global providers as they were, and
\* main aborts before the handler is registered: no request is served.
C7_BadConfigFatal ==
    (cfgFile \in {"unreadable", "badyaml", "sdkfail"} /\ pc # "start") =>
        /\ pc = "crashed"
        /\ closer = "nil"
        /\ ~deferred
        /\ closerCalls = 0
        /\ gProviders = NoProviders
        /\ otelGlobal = DefaultGlobals
        /\ ~registered
        /\ handled = 0
C7_Witness == cfgFile = "unreadable" /\ pc = "crashed"

\* C10: after a successful Setup the shutdown function is called exactly
\* once before the process ends, whichever way it leaves main.
C10_ShutdownCalledOnceOnExit ==
    (pc \in {"exited", "crashed"} /\ deferred) => closerCalls = 1


\* -------------------------------------------- claims on concurrent requests
\* The POST requests that have stored their header, and those answered.
Written(r) == reqs[r].method = "POST" /\ reqs[r].pc \in {"record", "done"}
Answered201(r) == reqs[r].method = "POST" /\ reqs[r].pc = "done" /\ reqs[r].idAt # 0

\* C8: the append is an unsynchronised read of the list followed by a write
\* of the extended list: when two POSTs handled concurrently read the same
\* list and both answer 201, the list holds fewer records than there were
\* 201 responses, one of the two records being lost.
C8_LostUpdate ==
    \A r1, r2 \in 1..NumConc :
        (r1 # r2 /\ Answered201(r1) /\ Answered201(r2)
         /\ reqs[r1].snap = reqs[r2].snap) =>
            /\ Cardinality({r \in 1..NumConc : Written(r)}) > Len(Stored)
            /\ reqs[r1].snap.len < Len(Stored)
            /\ \E r \in 1..NumConc :
                  /\ Written(r)
                  /\ reqs[r].snap.len = reqs[r1].snap.len
                  /\ Stored[reqs[r1].snap.len + 1] = reqs[r].payment
C8_Witness ==
    /\ Answered201(1) /\ Answered201(2)
    /\ reqs[1].snap = reqs[2].snap
    /\ reqs[1].payment # reqs[2].payment
    /\ Len(created) = 2
    /\ Len(Stored) = 1
    /\ ~ub

\* C9: a payment's id is "pay_" and the Unix second the POST was handled
\* in: two payments of different seconds have different ids, two of the same
\* second have the same id, and the list holds both.
C9_IdIsSecond ==
    /\ \A r \in 1..NumConc :
          reqs[r].idAt # 0 => reqs[r].payment.ID = "pay_" \o ToString(reqs[r].idAt)
    /\ \A r1, r2 \in 1..NumConc :
          (reqs[r1].idAt # 0 /\ reqs[r2].idAt # 0) =>
              (reqs[r1].payment.ID = reqs[r2].payment.ID
                 <=> reqs[r1].idAt = reqs[r2].idAt)
    /\ \A i \in 1..Len(Stored) :
          \E r \in 1..NumConc : Written(r) /\ Stored[i] = reqs[r].payment
C9_Witness ==
    /\ Len(Stored) = 2
    /\ Stored[1].ID = Stored[2].ID
    /\ Stored[1].Amount # Stored[2].Amount


\* No request is in flight: each one has been answered or has not arrived.
Quiescent == \A r \in 1..NumConc : reqs[r].pc \in {"idle", "done"}
\* The answered requests whose response had a status of 400 or above: the
\* other methods (405) and the POSTs that stamped no payment (400).
ErrorResponses ==
    {r \in 1..NumConc :
        /\ reqs[r].pc = "done"
        /\ \/ reqs[r].method \notin {"GET", "POST"}
           \/ reqs[r].method = "POST" /\ reqs[r].idAt = 0}

\* C11: in the revisions with metrics, once the requests handled so far
\* (one at a time or concurrently) are answered, the totals of
\* payments_by_status_total and payments_by_currency_total and the number
\* of payment_amount recordings equal the number of records in the list,
\* which equals the number of 201 responses; and http_errors_total counts
\* exactly the responses with a status of 400 or above.
C11_CountersAgreeWithList ==
    (Quiescent /\ HasBusinessMetrics(revision) /\ ~metrics.null) =>
        /\ metrics.byStatus = Len(Stored)
        /\ metrics.byCurrency = Len(Stored)
        /\ metrics.amounts = Len(Stored)
        /\ Len(Stored) = Len(created)
        /\ HasHTTPMetrics(revision) => metrics.errors = Cardinality(ErrorResponses)

\* What does hold of the counters once the requests are answered: they
\* equal the number of 201 responses, and the list holds no more than that.
C11_CountersAgreeWithResponses ==
    (Quiescent /\ HasBusinessMetrics(revision) /\ ~metrics.null) =>
        /\ metrics.byStatus = Len(created)
        /\ metrics.byCurrency = Len(created)
        /\ metrics.amounts = Len(created)
        /\ Len(Stored) <= Len(created)
        /\ HasHTTPMetrics(revision) => metrics.errors = Cardinality(ErrorResponses)

====
